---- MODULE Spec2Model ----
(***************************************************************************)
(* A model of the todo store of toto (src/src/cli.rs).                     *)
(*                                                                         *)
(* One invocation of the tool is load_todos, one store operation, and      *)
(* save_todos (Cli::run, lines 230-282).  The store operations are the     *)
(* methods of Cli; the files are modelled by their parsed content and      *)
(* their byte length, because save_todos and sync open their file without  *)
(* truncating it and write from offset 0.                                  *)
(*                                                                         *)
(* The specifications drive the same operations with different inputs:     *)
(* Spec follows the life cycle of a todo, SpecSync the files of a store    *)
(* of several todos, SpecOrder the ordering and the references; these      *)
(* three call the operations as the arms of Cli::run do.  SpecCli goes     *)
(* through the arguments as clap parses them and as the arms read them.    *)
(* SpecRace and SpecArchive run a second invocation at the same time on    *)
(* the same directory.  SpecLoss lets the archive file fail.               *)
(*                                                                         *)
(* Time is counted in ticks; TicksPerSec ticks make one second, so that    *)
(* the sub-second part of DateTime<Utc> that ts_seconds drops is visible.  *)
(* Option<T> is the empty sequence (None) or a one-element sequence        *)
(* (Some).  A String is a sequence of characters.                          *)
(***************************************************************************)
EXTENDS Integers, Sequences, FiniteSets, TLC

\* ---------------------------------------------------------------- bounds
MaxTodos == 2
MaxClock == 2
MaxRuns == 4
\* the todos of the life-cycle specification
LifeTodos == 1

\* -------------------------------------------------------- scale of time
\* the smallest scale that keeps the clock finer than the stored second and
\* lets the day of the archive change
TicksPerSec == 2
SecsPerDay == 1

\* ------------------------------------------------------- input domains
Ids == 1..MaxTodos
Titles == {<<>>, <<"t">>}
Descriptions == {<<"d">>}
\* the default of add's --priority
DefaultPriority == 255
Priorities == {1, DefaultPriority}
Days == 0..(MaxClock \div (TicksPerSec * SecsPerDay))

None == <<>>
Some(x) == <<x>>
IsSome(o) == o # <<>>
Unwrap(o) == o[1]

VARIABLES
    file,       \* todos.json: [recs |-> list last written, len |-> length in bytes]
    archive,    \* completed_<day>.json, one per day, same shape as file
    now,        \* the clock, in ticks
    nextId,     \* the next identifier Uuid::new_v4 hands out
    born,       \* the instant (in ticks) at which each todo was created
    pc,         \* where the invocation stands: "done", "loaded", "ran"
    todo_map,   \* Cli::todo_map of the running invocation
    call,       \* the operation the invocation ran, with its arguments
    out,        \* what the operation printed
    exit,       \* how the last invocation ended: "ok", "fatal", "panic"
    runs,       \* the number of invocations started
    peer        \* a second invocation on the same directory: its pc, todo_map, exit

vars == <<file, archive, now, nextId, born, pc, todo_map, call, out, exit, runs, peer>>

\* ---------------------------------------------------------------- helpers
Range(s) == {s[i] : i \in 1..Len(s)}

\* every enumeration without repetition of the finite set S
Perms(S) ==
    {s \in [1..Cardinality(S) -> S] : \A i, j \in 1..Cardinality(S) : s[i] = s[j] => i = j}

RECURSIVE SumSeq(_)
SumSeq(s) == IF s = <<>> THEN 0 ELSE Head(s) + SumSeq(Tail(s))

\* ------------------------------------------------- serde: ts_seconds
\* ts_seconds / ts_seconds_option write DateTime::timestamp(), whole seconds
TsSeconds(t) == t \div TicksPerSec
FromTsSeconds(s) == s * TicksPerSec
TsSecondsOption(o) == IF IsSome(o) THEN Some(TsSeconds(Unwrap(o))) ELSE None
FromTsSecondsOption(o) == IF IsSome(o) THEN Some(FromTsSeconds(Unwrap(o))) ELSE None

\* Serialize for Todo: the JSON object of one list entry
SerializeTodo(id, data) ==
    [id |-> id,
     data |-> [title |-> data.title,
               description |-> data.description,
               priority |-> data.priority,
               status |-> data.status,
               created_at |-> TsSeconds(data.created_at),
               in_progress_at |-> TsSecondsOption(data.in_progress_at),
               completed_at |-> TsSecondsOption(data.completed_at),
               deleted_at |-> TsSecondsOption(data.deleted_at)]]

\* Deserialize for TodoData
DeserializeData(j) ==
    [title |-> j.title,
     description |-> j.description,
     priority |-> j.priority,
     status |-> j.status,
     created_at |-> FromTsSeconds(j.created_at),
     in_progress_at |-> FromTsSecondsOption(j.in_progress_at),
     completed_at |-> FromTsSecondsOption(j.completed_at),
     deleted_at |-> FromTsSecondsOption(j.deleted_at)]

\* ------------------------------------------ byte length of the pretty JSON
\* keys, braces, indentation, the 36-character id and the separator of one entry
EntryFrameBytes == 250
\* a unix time in seconds has ten digits
TsBytes == 10
NullBytes == 4
ListFrameBytes == 2

StringBytes(s) == Len(s) + 2
DigitBytes(n) == IF n < 10 THEN 1 ELSE IF n < 100 THEN 2 ELSE 3
StatusBytes(st) ==
    CASE st = "Pending" -> 9
      [] st = "InProgress" -> 12
      [] st = "Completed" -> 11
      [] st = "Deleted" -> 9
OptionTsBytes(o) == IF IsSome(o) THEN TsBytes ELSE NullBytes

EntryBytes(e) ==
    EntryFrameBytes
    + StringBytes(e.data.title)
    + (IF IsSome(e.data.description) THEN StringBytes(Unwrap(e.data.description)) ELSE NullBytes)
    + DigitBytes(e.data.priority)
    + StatusBytes(e.data.status)
    + TsBytes
    + OptionTsBytes(e.data.in_progress_at)
    + OptionTsBytes(e.data.completed_at)
    + OptionTsBytes(e.data.deleted_at)

\* serde_json::to_writer_pretty of a Vec<Todo>
ListBytes(recs) == ListFrameBytes + SumSeq([i \in 1..Len(recs) |-> EntryBytes(recs[i])])

\* ------------------------------------------------------------- the files
EmptyFile == [recs |-> <<>>, len |-> 0]

WriteListAppend(f, recs) ==
    [recs |-> f.recs \o recs, len |-> f.len + ListBytes(recs)]

\* OpenOptions::new().create(true).read(true).write(true): no truncate.
\* Writing the list from offset 0 replaces the first ListBytes(recs) bytes;
\* whatever the file held beyond them stays.
WriteList(f, recs) ==
    [recs |-> recs, len |-> IF ListBytes(recs) > f.len THEN ListBytes(recs) ELSE f.len]

\* serde_json::from_reader: the list, then nothing but white space up to
\* the end of the file; bytes left over from a longer content end in "]".
Parses(f) == f.len = ListBytes(f.recs)

\* the map that inserting the entries of recs one after the other builds
RECURSIVE InsertAll(_, _)
InsertAll(m, recs) ==
    IF recs = <<>> THEN m
    ELSE LET e == Head(recs)
             d == DeserializeData(e.data)
         IN InsertAll([k \in DOMAIN m \cup {e.id} |-> IF k = e.id THEN d ELSE m[k]],
                      Tail(recs))

EmptyMap == [k \in {} |-> 0]

\* the lists HashMap::iter may produce for m, serialized
Serializations(m) ==
    {[i \in 1..Len(s) |-> SerializeTodo(s[i], m[s[i]])] : s \in Perms(DOMAIN m)}

\* ------------------------------------------------------- ordered_todos
SortsBeforeReversed(a, b) ==
    \/ a.priority > b.priority
    \/ a.priority = b.priority /\ a.created_at < b.created_at

\* a precedes b in the comparator of sort_by
SortsBefore(a, b) ==
    \/ a.priority < b.priority
    \/ a.priority = b.priority /\ a.created_at < b.created_at

\* sort_by is stable, the order of its input is that of HashMap::iter:
\* entries the comparator holds equal come out in any order
OrderedTodos(m) ==
    {s \in Perms(DOMAIN m) :
        \A i, j \in 1..Len(s) : i < j => ~SortsBefore(m[s[j]], m[s[i]])}

\* ------------------------------------------------------------ references
\* the id argument: decimal digits, the text of a v4 uuid, or other text
IntRef(n) == [kind |-> "int", val |-> n]
UuidRef(u) == [kind |-> "uuid", val |-> u]
TextRef == [kind |-> "text", val |-> 0]
NoRef == [kind |-> "none", val |-> 0]
Refs == {IntRef(n) : n \in 0..MaxTodos} \cup {UuidRef(u) : u \in Ids} \cup {TextRef}
\* the first position, every identifier, and text that is neither
LifeRefs == {IntRef(0), TextRef} \cup {UuidRef(u) : u \in Ids}
IdRefs == {UuidRef(u) : u \in Ids}

ParseUsize(r) == IF r.kind = "int" THEN Some(r.val) ELSE None
UuidParseStr(r) == IF r.kind = "uuid" THEN Some(r.val) ELSE None

\* parse_todo_id, given the result todos of ordered_todos; None is Err
ParseTodoId(todos, r) ==
    IF IsSome(ParseUsize(r)) /\ Unwrap(ParseUsize(r)) < Len(todos)
    THEN Some(todos[Unwrap(ParseUsize(r)) + 1])
    ELSE UuidParseStr(r)

\* ------------------------------------------------------------------ Init
NoArgs == [title |-> None, description |-> None, priority |-> None,
           in_progress |-> None, completed |-> None, deleted |-> None]

NoCall == [op |-> "none", ref |-> NoRef, args |-> NoArgs, pre |-> EmptyMap,
           todos |-> <<>>, target |-> None, at |-> 0]

Init ==
    /\ file = EmptyFile
    /\ archive = [d \in Days |-> EmptyFile]
    /\ now = 0
    /\ nextId = 1
    /\ born = EmptyMap
    /\ pc = "done"
    /\ todo_map = EmptyMap
    /\ call = NoCall
    /\ out = {}
    /\ exit = "ok"
    /\ runs = 0
    /\ peer = [pc |-> "done", todo_map |-> EmptyMap, exit |-> "ok"]

\* ------------------------------------------------------------- the clock
\* No step of an invocation but the operation reads the clock, so time
\* passing inside an invocation is time passing before it.
Tick ==
    /\ pc = "done"
    /\ now < MaxClock
    /\ now' = now + 1
    /\ UNCHANGED <<file, archive, nextId, born, pc, todo_map, call, out, exit, runs, peer>>

\* ------------------------------------------------------------ load_todos
LoadResultLenient(f) ==
    IF f.len = 0 THEN Some(EmptyMap) ELSE Some(InsertAll(EmptyMap, f.recs))

\* What load_todos makes of the file f: Some(map), or None when
\* serde_json::from_reader fails.  An empty file gives the empty map.
LoadResult(f) ==
    IF f.len = 0 THEN Some(EmptyMap)
    ELSE IF Parses(f) THEN Some(InsertAll(EmptyMap, f.recs))
    ELSE None

\* A process starts with an empty todo_map.  A list that does not parse is
\* fatal: run returns the error before any operation.
LoadTodos ==
    /\ pc = "done"
    /\ runs < MaxRuns
    /\ runs' = runs + 1
    /\ out' = {}
    /\ call' = NoCall
    /\ IF IsSome(LoadResult(file))
       THEN /\ todo_map' = Unwrap(LoadResult(file))
            /\ pc' = "loaded"
            /\ exit' = "none"
       ELSE /\ todo_map' = EmptyMap
            /\ pc' = "done"
            /\ exit' = "fatal"
    /\ UNCHANGED <<file, archive, now, nextId, born, peer>>

\* ------------------------------------------------------------ save_todos
SaveTodos ==
    /\ pc = "ran"
    /\ \E recs \in Serializations(todo_map) : file' = WriteList(file, recs)
    /\ pc' = "done"
    /\ exit' = "ok"
    /\ call' = NoCall
    /\ out' = {}
    /\ UNCHANGED <<archive, now, nextId, born, todo_map, runs, peer>>

\* -------------------------------------------------------------- add_todo
NewTodoPending(title, description, priority, in_progress, started, created) ==
    [title |-> title,
     description |-> description,
     priority |-> priority,
     in_progress_at |-> IF in_progress THEN Some(started) ELSE None,
     created_at |-> created,
     completed_at |-> None,
     deleted_at |-> None,
     status |-> "Pending"]

\* the TodoData add_todo builds; started and created are the two readings
\* of the clock, in the order of the fields
NewTodo(title, description, priority, in_progress, started, created) ==
    [title |-> title,
     description |-> description,
     priority |-> priority,
     in_progress_at |-> IF in_progress THEN Some(started) ELSE None,
     created_at |-> created,
     completed_at |-> None,
     deleted_at |-> None,
     status |-> IF in_progress THEN "InProgress" ELSE "Pending"]

\* in_progress_at is read from the clock before created_at is; d is the
\* time that passes between the two readings
AddTodo(title, description, priority, in_progress) ==
    /\ pc = "loaded"
    /\ nextId <= MaxTodos
    /\ \E d \in (IF in_progress THEN {0, 1} ELSE {0}) :
        /\ now + d <= MaxClock
        /\ now' = now + d
        /\ todo_map' =
             [k \in DOMAIN todo_map \cup {nextId} |->
                IF k = nextId
                THEN NewTodo(title, description, priority, in_progress, now, now + d)
                ELSE todo_map[k]]
        /\ born' = [k \in DOMAIN born \cup {nextId} |-> IF k = nextId THEN now + d ELSE born[k]]
    /\ call' = [call EXCEPT !.op = "add", !.pre = todo_map, !.target = Some(nextId), !.at = now,
                            !.args = [NoArgs EXCEPT !.title = Some(title),
                                                    !.in_progress = Some(in_progress)]]
    /\ nextId' = nextId + 1
    /\ pc' = "ran"
    /\ UNCHANGED <<file, archive, out, exit, runs, peer>>

\* --------------------------------------------- setting one entry of the map
PutEvery(m, k, d) == [x \in DOMAIN m |-> d]

\* get_mut(&todo_id) and the assignments through it
Put(m, k, d) == [x \in DOMAIN m |-> IF x = k THEN d ELSE m[x]]

\* the frame of an operation that takes a reference; todos is the local of
\* parse_todo_id, kept when parse_todo_id indexed it
RefCall(op, r, args, todos) ==
    [op |-> op, ref |-> r, args |-> args, pre |-> todo_map,
     todos |-> IF IsSome(ParseUsize(r)) /\ Unwrap(ParseUsize(r)) < Len(todos)
               THEN todos ELSE <<>>,
     target |-> ParseTodoId(todos, r), at |-> now]

\* the reference parsed and the todo is in the map
Found(c) == IsSome(c.target) /\ Unwrap(c.target) \in DOMAIN c.pre

\* ------------------------------------------------------------ start_todo
StartedData(d, t) ==
    [d EXCEPT !.in_progress_at = IF IsSome(d.in_progress_at) THEN @ ELSE Some(t),
              !.status = "InProgress"]

StartTodo(r) ==
    /\ pc = "loaded"
    /\ \E todos \in OrderedTodos(todo_map) :
        LET c == RefCall("start", r, NoArgs, todos)
            k == Unwrap(c.target)
        IN /\ call' = c
           /\ IF Found(c)
              THEN /\ todo_map' = Put(todo_map, k, StartedData(todo_map[k], now))
                   /\ out' = {}
              ELSE /\ todo_map' = todo_map
                   /\ out' = IF IsSome(c.target) THEN {"Todo not found"} ELSE {}
    /\ pc' = "ran"
    /\ UNCHANGED <<file, archive, now, nextId, born, exit, runs, peer>>

\* --------------------------------------------------------- complete_todo
CompletedDataAlways(d, t) == [d EXCEPT !.completed_at = Some(t), !.status = "Completed"]

CompletedData(d, t) ==
    IF IsSome(d.completed_at) THEN d
    ELSE [d EXCEPT !.completed_at = Some(t), !.status = "Completed"]

CompleteTodo(r) ==
    /\ pc = "loaded"
    /\ \E todos \in OrderedTodos(todo_map) :
        LET c == RefCall("complete", r, NoArgs, todos)
            k == Unwrap(c.target)
        IN /\ call' = c
           /\ IF Found(c)
              THEN /\ todo_map' = Put(todo_map, k, CompletedData(todo_map[k], now))
                   /\ out' = IF IsSome(todo_map[k].completed_at)
                             THEN {"Todo is already completed"} ELSE {}
              ELSE /\ todo_map' = todo_map
                   /\ out' = IF IsSome(c.target) THEN {"Todo not found"} ELSE {}
    /\ pc' = "ran"
    /\ UNCHANGED <<file, archive, now, nextId, born, exit, runs, peer>>

\* ----------------------------------------------------------- delete_todo
DeletedData(d, t) ==
    IF IsSome(d.deleted_at) THEN d
    ELSE [d EXCEPT !.deleted_at = Some(t), !.status = "Deleted"]

DeleteTodo(r) ==
    /\ pc = "loaded"
    /\ \E todos \in OrderedTodos(todo_map) :
        LET c == RefCall("delete", r, NoArgs, todos)
            k == Unwrap(c.target)
        IN /\ call' = c
           /\ IF Found(c)
              THEN /\ todo_map' = Put(todo_map, k, DeletedData(todo_map[k], now))
                   /\ out' = IF IsSome(todo_map[k].deleted_at)
                             THEN {"Todo is already deleted"} ELSE {}
              ELSE /\ todo_map' = todo_map
                   /\ out' = IF IsSome(c.target) THEN {"Todo not found"} ELSE {}
    /\ pc' = "ran"
    /\ UNCHANGED <<file, archive, now, nextId, born, exit, runs, peer>>

\* ----------------------------------------------------------- update_todo
\* the six optional arguments, applied in the order of the source
IsTrue(flag) == IsSome(flag) /\ Unwrap(flag)

UpdTitle(d, a) == IF IsSome(a.title) THEN [d EXCEPT !.title = Unwrap(a.title)] ELSE d
UpdDescription(d, a) ==
    IF IsSome(a.description) THEN [d EXCEPT !.description = Some(Unwrap(a.description))] ELSE d
UpdPriority(d, a) == IF IsSome(a.priority) THEN [d EXCEPT !.priority = Unwrap(a.priority)] ELSE d
UpdInProgress(d, a, t) ==
    IF IsTrue(a.in_progress)
    THEN [d EXCEPT !.in_progress_at = IF IsSome(d.in_progress_at) THEN @ ELSE Some(t),
                   !.status = "InProgress"]
    ELSE d
UpdCompleted(d, a, t) ==
    IF IsTrue(a.completed)
    THEN [d EXCEPT !.completed_at = IF IsSome(d.completed_at) THEN @ ELSE Some(t),
                   !.status = "Completed"]
    ELSE d
\* line 407 assigns completed_at where deleted_at is tested
UpdDeleted(d, a, t) ==
    IF IsTrue(a.deleted)
    THEN [d EXCEPT !.completed_at = IF IsSome(d.deleted_at) THEN @ ELSE Some(t),
                   !.status = "Deleted"]
    ELSE d

UpdatedData(d, a, t) ==
    UpdDeleted(UpdCompleted(UpdInProgress(UpdPriority(UpdDescription(UpdTitle(d, a), a), a), a, t), a, t), a, t)

UpdateTodo(r, a) ==
    /\ pc = "loaded"
    /\ \E todos \in OrderedTodos(todo_map) :
        LET c == RefCall("update", r, a, todos)
            k == Unwrap(c.target)
        IN /\ call' = c
           /\ IF Found(c)
              THEN /\ todo_map' = Put(todo_map, k, UpdatedData(todo_map[k], a, now))
                   /\ out' = {}
              ELSE /\ todo_map' = todo_map
                   /\ out' = IF IsSome(c.target) THEN {"Todo not found"} ELSE {}
    /\ pc' = "ran"
    /\ UNCHANGED <<file, archive, now, nextId, born, exit, runs, peer>>

\* the argument combinations explored: every combination of the three
\* flags, and every combination of title, description and priority
FlagArgs ==
    {[NoArgs EXCEPT !.in_progress = i, !.completed = c, !.deleted = d] :
        i \in {None, Some(TRUE)}, c \in {None, Some(TRUE)}, d \in {None, Some(TRUE)}}
    \cup {[NoArgs EXCEPT !.in_progress = Some(FALSE), !.completed = Some(FALSE),
                         !.deleted = Some(FALSE)]}
FieldArgs ==
    {[NoArgs EXCEPT !.title = Some(t)] : t \in Titles}
    \cup {[NoArgs EXCEPT !.description = Some(d)] : d \in Descriptions}
    \cup {[NoArgs EXCEPT !.priority = Some(p)] : p \in Priorities}
UpdateArgs == FlagArgs \cup FieldArgs

\* ------------------------------------------------------------ list_todos
\* prints the ordered todos, then todo!() panics: the process ends here
ListTodos ==
    /\ pc = "loaded"
    /\ \E todos \in OrderedTodos(todo_map) :
        call' = [NoCall EXCEPT !.op = "list", !.pre = todo_map, !.todos = todos, !.at = now]
    /\ out' = {"listing"}
    /\ pc' = "done"
    /\ exit' = "panic"
    /\ UNCHANGED <<file, archive, now, nextId, born, todo_map, runs, peer>>

\* ------------------------------------------------------------------ sync
Day(t) == t \div (TicksPerSec * SecsPerDay)

ArchivableCompletedOnly(d) == IsSome(d.completed_at)
ArchivableAny(d) == TRUE

\* the filter of keys_to_archive
Archivable(d) == IsSome(d.completed_at) \/ IsSome(d.deleted_at)

\* the Vec<Todo> serde_json::from_reader makes of the archive file; an
\* archive of length 0 is not read
ReadArchive(f) ==
    IF f.len > 0
    THEN [i \in 1..Len(f.recs) |-> [id |-> f.recs[i].id, data |-> DeserializeData(f.recs[i].data)]]
    ELSE <<>>

\* archived_todos: the todos removed from m, in the order batch of the keys
ArchivedTodos(m, batch) == [i \in 1..Len(batch) |-> [id |-> batch[i], data |-> m[batch[i]]]]

ExtendFront(old, new) == new \o old

\* archive.extend(archived_todos)
Extend(old, new) == old \o new

\* Serialize for Vec<Todo>
SerializeList(todos) == [i \in 1..Len(todos) |-> SerializeTodo(todos[i].id, todos[i].data)]

GitStepsChecked(add_ok, push_ok) == IF add_ok /\ push_ok THEN "Ok" ELSE "Err"

\* what sync returns after the two Command::output() calls, given whether
\* each was Ok: the results are only tested to print
GitSteps(add_ok, push_ok) == "Ok"

GitOutput(add_ok, push_ok) ==
    (IF add_ok THEN {"Git add and commit executed successfully."} ELSE {})
    \cup (IF push_ok THEN {"Git push executed successfully."} ELSE {})

Sync ==
    /\ pc = "loaded"
    /\ LET keys == {k \in DOMAIN todo_map : Archivable(todo_map[k])}
           rest == [k \in DOMAIN todo_map \ keys |-> todo_map[k]]
           day == Day(now)
       IN /\ todo_map' = rest
          /\ call' = [NoCall EXCEPT !.op = "sync", !.pre = todo_map, !.at = now]
          /\ IF keys = {}
             THEN /\ out' = {"No completed or deleted todos to archive."}
                  /\ pc' = "ran"
                  /\ UNCHANGED <<archive, exit>>
             ELSE IF archive[day].len > 0 /\ ~Parses(archive[day])
             THEN /\ out' = {}
                  /\ pc' = "done"
                  /\ exit' = "fatal"
                  /\ UNCHANGED archive
             ELSE \E batch \in Perms(keys), add_ok \in BOOLEAN, push_ok \in BOOLEAN :
                  /\ archive' =
                       [archive EXCEPT ![day] =
                          WriteList(@, SerializeList(Extend(ReadArchive(@),
                                                            ArchivedTodos(todo_map, batch))))]
                  /\ out' = GitOutput(add_ok, push_ok)
                  /\ IF GitSteps(add_ok, push_ok) = "Ok"
                     THEN pc' = "ran" /\ UNCHANGED exit
                     ELSE pc' = "done" /\ exit' = "fatal"
    /\ UNCHANGED <<file, now, nextId, born, runs, peer>>

\* sync when the archive file of the day cannot be read or written.  An
\* error of the open, of the read or of to_writer_pretty is returned with ?
\* (reported); an error of the write that BufWriter makes when it is dropped
\* is ignored, and sync goes on as if the archive were written.
SyncArchiveFails(reported) ==
    /\ pc = "loaded"
    /\ LET keys == {k \in DOMAIN todo_map : Archivable(todo_map[k])}
           rest == [k \in DOMAIN todo_map \ keys |-> todo_map[k]]
       IN /\ keys # {}
          /\ todo_map' = rest
          /\ call' = [NoCall EXCEPT !.op = "sync", !.pre = todo_map, !.at = now]
          /\ IF reported
             THEN /\ out' = {}
                  /\ pc' = "done"
                  /\ exit' = "fatal"
             ELSE \E add_ok \in BOOLEAN, push_ok \in BOOLEAN :
                  /\ out' = GitOutput(add_ok, push_ok)
                  /\ IF GitSteps(add_ok, push_ok) = "Ok"
                     THEN pc' = "ran" /\ UNCHANGED exit
                     ELSE pc' = "done" /\ exit' = "fatal"
    /\ UNCHANGED <<file, archive, now, nextId, born, runs, peer>>

\* ---------------------------------------------- the command surface of run
\* the value_parser each subcommand declares for its id argument
IdValueParser(cmd) == IF cmd = "delete" THEN "String" ELSE "Uuid"

\* get_matches on the id argument: value_parser!(Uuid) takes what
\* Uuid::from_str takes, value_parser!(String) takes any text
IdAccepted(cmd, r) == IdValueParser(cmd) = "String" \/ IsSome(UuidParseStr(r))

\* get_one::<String>("id"): the value as a String; None is the panic of
\* get_one when the argument was declared with another type
GetOneString(cmd, r) == IF IdValueParser(cmd) = "String" THEN Some(r) ELSE None

\* get_matches rejects the id: clap prints the usage error and exits the
\* process before load_todos
GetMatchesError(cmd, r) ==
    /\ pc = "done"
    /\ runs < MaxRuns
    /\ ~IdAccepted(cmd, r)
    /\ runs' = runs + 1
    /\ call' = [NoCall EXCEPT !.op = cmd, !.ref = r, !.at = now]
    /\ out' = {}
    /\ todo_map' = EmptyMap
    /\ exit' = "usage"
    /\ UNCHANGED <<file, archive, now, nextId, born, pc, peer>>

\* the unwrap of the dispatch arm panics: the process ends between load_todos
\* and save_todos
DispatchPanic(cmd, r) ==
    /\ call' = [NoCall EXCEPT !.op = cmd, !.ref = r, !.pre = todo_map, !.at = now]
    /\ out' = {}
    /\ pc' = "done"
    /\ exit' = "panic"
    /\ UNCHANGED <<file, archive, now, nextId, born, todo_map, runs, peer>>

\* the arms of match matches.subcommand()
RunUpdate(r, a) ==
    /\ pc = "loaded"
    /\ IdAccepted("update", r)
    /\ IF IsSome(GetOneString("update", r))
       THEN UpdateTodo(Unwrap(GetOneString("update", r)), a)
       ELSE DispatchPanic("update", r)

RunStart(r) ==
    /\ pc = "loaded"
    /\ IdAccepted("start", r)
    /\ IF IsSome(GetOneString("start", r))
       THEN StartTodo(Unwrap(GetOneString("start", r)))
       ELSE DispatchPanic("start", r)

RunComplete(r) ==
    /\ pc = "loaded"
    /\ IdAccepted("complete", r)
    /\ IF IsSome(GetOneString("complete", r))
       THEN CompleteTodo(Unwrap(GetOneString("complete", r)))
       ELSE DispatchPanic("complete", r)

RunDelete(r) ==
    /\ pc = "loaded"
    /\ IdAccepted("delete", r)
    /\ IF IsSome(GetOneString("delete", r))
       THEN DeleteTodo(Unwrap(GetOneString("delete", r)))
       ELSE DispatchPanic("delete", r)

\* ------------------------------------------------- a second invocation
\* run in another process at the same time: its own todo_map, the same
\* files; runs counts the invocations of the first process only
PeerLoad ==
    /\ peer.pc = "done"
    /\ peer' = IF IsSome(LoadResult(file))
               THEN [pc |-> "loaded", todo_map |-> Unwrap(LoadResult(file)), exit |-> "none"]
               ELSE [pc |-> "done", todo_map |-> EmptyMap, exit |-> "fatal"]
    /\ UNCHANGED <<file, archive, now, nextId, born, pc, todo_map, call, out, exit, runs>>

PeerAdd(title, description, priority, in_progress) ==
    /\ peer.pc = "loaded"
    /\ nextId <= MaxTodos
    /\ peer' = [peer EXCEPT
                  !.pc = "ran",
                  !.todo_map =
                     [k \in DOMAIN peer.todo_map \cup {nextId} |->
                        IF k = nextId
                        THEN NewTodo(title, description, priority, in_progress, now, now)
                        ELSE peer.todo_map[k]]]
    /\ born' = [k \in DOMAIN born \cup {nextId} |-> IF k = nextId THEN now ELSE born[k]]
    /\ nextId' = nextId + 1
    /\ UNCHANGED <<file, archive, now, pc, todo_map, call, out, exit, runs>>

PeerSave ==
    /\ peer.pc = "ran"
    /\ \E recs \in Serializations(peer.todo_map) : file' = WriteList(file, recs)
    /\ peer' = [peer EXCEPT !.pc = "done", !.exit = "ok"]
    /\ UNCHANGED <<archive, now, nextId, born, pc, todo_map, call, out, exit, runs>>

\* sync in the second invocation
PeerSync ==
    /\ peer.pc = "loaded"
    /\ LET keys == {k \in DOMAIN peer.todo_map : Archivable(peer.todo_map[k])}
           rest == [k \in DOMAIN peer.todo_map \ keys |-> peer.todo_map[k]]
           day == Day(now)
       IN IF keys = {}
          THEN /\ peer' = [peer EXCEPT !.pc = "ran"]
               /\ UNCHANGED archive
          ELSE IF archive[day].len > 0 /\ ~Parses(archive[day])
          THEN /\ peer' = [pc |-> "done", todo_map |-> rest, exit |-> "fatal"]
               /\ UNCHANGED archive
          ELSE \E batch \in Perms(keys), add_ok \in BOOLEAN, push_ok \in BOOLEAN :
               /\ archive' =
                    [archive EXCEPT ![day] =
                       WriteList(@, SerializeList(Extend(ReadArchive(@),
                                                         ArchivedTodos(peer.todo_map, batch))))]
               /\ peer' = IF GitSteps(add_ok, push_ok) = "Ok"
                          THEN [pc |-> "ran", todo_map |-> rest, exit |-> peer.exit]
                          ELSE [pc |-> "done", todo_map |-> rest, exit |-> "fatal"]
    /\ UNCHANGED <<file, now, nextId, born, pc, todo_map, call, out, exit, runs>>

\* The life cycle of a todo: LifeTodos todos of one title and the default
\* priority, addressed by position or identifier, put through every
\* transition and every combination of the flags of update, and archived.
Next ==
    \/ Tick
    \/ LoadTodos
    \/ SaveTodos
    \/ \E i \in BOOLEAN : nextId <= LifeTodos /\ AddTodo(<<"t">>, None, DefaultPriority, i)
    \/ \E r \in LifeRefs, a \in FlagArgs : UpdateTodo(r, a)
    \/ \E r \in LifeRefs : StartTodo(r)
    \/ \E r \in LifeRefs : CompleteTodo(r)
    \/ \E r \in LifeRefs : DeleteTodo(r)
    \/ ListTodos
    \/ Sync

Spec == Init /\ [][Next]_vars

\* The store and its files: several todos, finished in any of the three
\* ways, archived and saved.
NextSync ==
    \/ Tick
    \/ LoadTodos
    \/ SaveTodos
    \/ AddTodo(<<"t">>, None, DefaultPriority, FALSE)
    \/ \E r \in IdRefs : UpdateTodo(r, [NoArgs EXCEPT !.deleted = Some(TRUE)])
    \/ \E r \in IdRefs : StartTodo(r)
    \/ \E r \in IdRefs : CompleteTodo(r)
    \/ \E r \in IdRefs : DeleteTodo(r)
    \/ Sync

SpecSync == Init /\ [][NextSync]_vars

\* The ordering and the references: todos of either priority, priorities
\* changed by update, every kind of reference resolved.
NextOrder ==
    \/ Tick
    \/ LoadTodos
    \/ SaveTodos
    \/ \E p \in Priorities : AddTodo(<<"t">>, None, p, FALSE)
    \/ \E r \in Refs, p \in Priorities : UpdateTodo(r, [NoArgs EXCEPT !.priority = Some(p)])
    \/ \E r \in Refs : StartTodo(r)
    \/ ListTodos

SpecOrder == Init /\ [][NextOrder]_vars

\* The command surface: every subcommand as run parses and dispatches it,
\* todos of either title, started at once or not.  The clock moves only
\* between the two readings of add.
NextCli ==
    \/ \E cmd \in {"update", "start", "complete", "delete"}, r \in LifeRefs : GetMatchesError(cmd, r)
    \/ LoadTodos
    \/ SaveTodos
    \/ \E t \in Titles : AddTodo(t, None, DefaultPriority, FALSE)
    \/ AddTodo(<<"t">>, None, DefaultPriority, TRUE)
    \/ ListTodos
    \/ \E r \in LifeRefs, a \in FieldArgs : RunUpdate(r, a)
    \/ \E r \in LifeRefs : RunStart(r)
    \/ \E r \in LifeRefs : RunComplete(r)
    \/ \E r \in LifeRefs : RunDelete(r)
    \/ Sync

SpecCli == Init /\ [][NextCli]_vars

\* Two invocations at once on one directory, each adding a todo.
NextRace ==
    \/ Tick
    \/ LoadTodos
    \/ \E t \in Titles : AddTodo(t, None, DefaultPriority, FALSE)
    \/ SaveTodos
    \/ PeerLoad
    \/ \E t \in Titles : PeerAdd(t, None, DefaultPriority, FALSE)
    \/ PeerSave

SpecRace == Init /\ [][NextRace]_vars

\* The archive of a day written more than once: a sync in each of two
\* invocations that loaded the same store of LifeTodos todos.
NextArchive ==
    \/ Tick
    \/ LoadTodos
    \/ SaveTodos
    \/ nextId <= LifeTodos /\ AddTodo(<<"t">>, None, DefaultPriority, FALSE)
    \/ \E r \in IdRefs : CompleteTodo(r)
    \/ \E r \in IdRefs : StartTodo(r)
    \/ Sync
    \/ PeerLoad
    \/ PeerSync
    \/ PeerSave

SpecArchive == Init /\ [][NextArchive]_vars

\* The store and its archive when the archive file can fail.
NextLoss ==
    \/ Tick
    \/ LoadTodos
    \/ SaveTodos
    \/ AddTodo(<<"t">>, None, DefaultPriority, FALSE)
    \/ \E r \in IdRefs : CompleteTodo(r)
    \/ Sync
    \/ \E reported \in BOOLEAN : SyncArchiveFails(reported)

SpecLoss == Init /\ [][NextLoss]_vars

\* ======================================================================
\* The claims
\* ======================================================================
RefOps == {"update", "start", "complete", "delete"}
TimestampFields == {"in_progress_at", "completed_at", "deleted_at"}

\* an operation runs in this step, and returns
OpStep == pc = "loaded" /\ pc' = "ran"

\* C1: over every operation, a timestamp field of a todo that holds a value
\* keeps that value: no operation clears it or replaces it.
C1_TimestampSetOnce ==
    [][OpStep =>
        \A k \in DOMAIN todo_map \cap DOMAIN todo_map' : \A f \in TimestampFields :
            IsSome(todo_map[k][f]) => todo_map'[k][f] = todo_map[k][f]]_vars

\* C2: after update with the completed flag and the deleted flag both true,
\* the todo has status Deleted and both completed_at and deleted_at set.
C2_CompletedAndDeleted ==
    (pc = "ran" /\ call.op = "update" /\ Found(call)
        /\ IsTrue(call.args.completed) /\ IsTrue(call.args.deleted))
    => LET d == todo_map[Unwrap(call.target)]
       IN d.status = "Deleted" /\ IsSome(d.completed_at) /\ IsSome(d.deleted_at)

\* the state the operation of the frame c asked for, "none" when it asked
\* for no transition
Requested(c) ==
    CASE c.op = "start" -> "InProgress"
      [] c.op = "complete" -> "Completed"
      [] c.op = "delete" -> "Deleted"
      [] c.op = "update" /\ IsTrue(c.args.deleted) -> "Deleted"
      [] c.op = "update" /\ IsTrue(c.args.completed) -> "Completed"
      [] c.op = "update" /\ IsTrue(c.args.in_progress) -> "InProgress"
      [] OTHER -> "none"

\* C3: after start, complete, delete or update with a flag on an existing
\* todo, the status of the todo is the state that was requested last.
C3_StatusIsLastRequested ==
    (pc = "ran" /\ call.op \in RefOps /\ Found(call) /\ Requested(call) # "none")
    => todo_map[Unwrap(call.target)].status = Requested(call)

\* the fields of a todo as the storage format holds them, times in seconds
Stored(d) ==
    [d EXCEPT !.created_at = d.created_at \div TicksPerSec,
              !.in_progress_at = IF d.in_progress_at = <<>> THEN <<>>
                                 ELSE <<d.in_progress_at[1] \div TicksPerSec>>,
              !.completed_at = IF d.completed_at = <<>> THEN <<>>
                               ELSE <<d.completed_at[1] \div TicksPerSec>>,
              !.deleted_at = IF d.deleted_at = <<>> THEN <<>>
                             ELSE <<d.deleted_at[1] \div TicksPerSec>>]

\* C4: once an invocation has saved its collection, a load of the file
\* succeeds and yields the identifiers of the collection with the same field
\* values (times compared to the second, as they are stored).
C4_SaveThenLoad ==
    (pc = "done" /\ exit = "ok")
    => /\ IsSome(LoadResult(file))
       /\ DOMAIN Unwrap(LoadResult(file)) = DOMAIN todo_map
       /\ \A k \in DOMAIN todo_map :
            Stored(Unwrap(LoadResult(file))[k]) = Stored(todo_map[k])

\* sync runs in this step, and returns
SyncStep == pc = "loaded" /\ pc' = "ran" /\ call'.op = "sync"

\* C5: sync takes out of the collection exactly the todos whose completed_at
\* or deleted_at is set, appends exactly those, identifier and fields
\* unchanged, to the archive of the day, and leaves every other todo as it was.
C5_SyncMovesFinished ==
    [][SyncStep =>
        LET keys == {k \in DOMAIN todo_map :
                        todo_map[k].completed_at # <<>> \/ todo_map[k].deleted_at # <<>>}
            day == now \div (TicksPerSec * SecsPerDay)
            old == archive[day].recs
            new == archive'[day].recs
            added == SubSeq(new, Len(old) + 1, Len(new))
        IN /\ DOMAIN todo_map' = DOMAIN todo_map \ keys
           /\ \A k \in DOMAIN todo_map' : todo_map'[k] = todo_map[k]
           /\ Len(added) = Cardinality(keys)
           /\ {added[i].id : i \in 1..Len(added)} = keys
           /\ \A i \in 1..Len(added) : DeserializeData(added[i].data) = todo_map[added[i].id]
           /\ keys # {} => IsSome(LoadResult(archive'[day]))
           /\ \A d \in Days \ {day} : archive'[d] = archive[d]]_vars

C5_Witness ==
    /\ pc = "ran"
    /\ call.op = "sync"
    /\ DOMAIN todo_map # {}
    /\ DOMAIN call.pre \ DOMAIN todo_map # {}
    /\ \E d \in Days : Len(archive[d].recs) = Cardinality(DOMAIN call.pre \ DOMAIN todo_map)

\* C6: every todo sync takes out of the collection has status Completed or
\* Deleted when it is archived.
C6_ArchivedAreFinished ==
    (pc = "ran" /\ call.op = "sync")
    => \A k \in DOMAIN call.pre \ DOMAIN todo_map :
          call.pre[k].status \in {"Completed", "Deleted"}

NothingArchivable(m) ==
    \A k \in DOMAIN m : m[k].completed_at = <<>> /\ m[k].deleted_at = <<>>

\* sync runs on a collection with nothing to archive
SyncNothingStep == pc = "loaded" /\ call'.op = "sync" /\ NothingArchivable(todo_map)
\* the invocation of such a sync saves
SaveAfterNothing ==
    pc = "ran" /\ call.op = "sync" /\ NothingArchivable(call.pre) /\ pc' = "done"

\* C7 as stated: with nothing to archive, the sync invocation reports so and
\* writes no file: the store file and the archives keep their contents.
C7_NothingToArchiveTouchesNoFile ==
    [][(SyncNothingStep \/ SaveAfterNothing) => file' = file /\ archive' = archive]_vars

\* C7 as amended: with nothing to archive, sync reports so and writes no
\* file; the closing save of the invocation writes no archive and writes the
\* store file with the same todos, in any order.
C7_NothingToArchive ==
    [][/\ SyncNothingStep =>
            /\ out' = {"No completed or deleted todos to archive."}
            /\ pc' = "ran"
            /\ todo_map' = todo_map
            /\ file' = file
            /\ archive' = archive
       /\ SaveAfterNothing =>
            /\ archive' = archive
            /\ IsSome(LoadResult(file'))
            /\ LoadResult(file') = LoadResult(file)]_vars

C7_Witness ==
    /\ pc = "ran"
    /\ call.op = "sync"
    /\ out = {"No completed or deleted todos to archive."}
    /\ Cardinality(DOMAIN todo_map) = 2
    /\ todo_map = call.pre

\* C8: update, start, complete and delete given a reference that resolves to
\* no todo report "not found", leave the collection as it was, and return.
C8_UnresolvedReportsNotFound ==
    (pc = "ran" /\ call.op \in RefOps
        /\ ~(call.target # <<>> /\ call.target[1] \in DOMAIN call.pre))
    => out = {"Todo not found"} /\ todo_map = call.pre

\* C9: a reference that is a number below the number of todos resolves to
\* the identifier at that position of the ordering by priority, then
\* created_at; any other reference resolves as an identifier, or not at all.
C9_ReferenceResolution ==
    (pc = "ran" /\ call.op \in RefOps)
    => LET m == call.pre
           n == Cardinality(DOMAIN m)
           r == call.ref
           t == call.todos
       IN IF r.kind = "int" /\ r.val < n
          THEN /\ Len(t) = n
               /\ Range(t) = DOMAIN m
               /\ \A i, j \in 1..n : i < j =>
                    \/ m[t[i]].priority < m[t[j]].priority
                    \/ /\ m[t[i]].priority = m[t[j]].priority
                       /\ m[t[i]].created_at <= m[t[j]].created_at
               /\ call.target = <<t[r.val + 1]>>
          ELSE IF r.kind = "uuid" THEN call.target = <<r.val>>
          ELSE call.target = <<>>

C9_Witness ==
    /\ pc = "ran"
    /\ call.op = "start"
    /\ call.ref = IntRef(1)
    /\ call.todos = <<2, 1>>
    /\ call.pre[2].priority < call.pre[1].priority
    /\ todo_map[1].status = "InProgress"

\* C10: the ordering puts a before b whenever a has the lower priority, or
\* the same priority and was created earlier.
C10_EarlierCreatedFirst ==
    call.todos # <<>>
    => \A i, j \in 1..Len(call.todos) :
          LET a == call.todos[i]
              b == call.todos[j]
          IN (\/ call.pre[a].priority < call.pre[b].priority
              \/ /\ call.pre[a].priority = call.pre[b].priority
                 /\ born[a] < born[b])
             => i < j

\* C11: complete on a todo that complete has already completed reports
\* "already completed" and leaves the todo and the rest of the collection as
\* they were; complete on a todo with no completed_at sets it to the time of
\* the call, so that two calls set it once.
C11_CompleteTwice ==
    (pc = "ran" /\ call.op = "complete" /\ Found(call))
    => LET k == Unwrap(call.target)
       IN IF call.pre[k].completed_at # <<>>
          THEN out = {"Todo is already completed"} /\ todo_map = call.pre
          ELSE /\ out = {}
               /\ todo_map[k].completed_at = <<call.at>>
               /\ \A x \in DOMAIN call.pre \ {k} : todo_map[x] = call.pre[x]

\* the second complete, later than the first, on a todo only complete touched
C11_Witness ==
    /\ pc = "ran"
    /\ call.op = "complete"
    /\ out = {"Todo is already completed"}
    /\ call.target # <<>>
    /\ call.target[1] \in DOMAIN todo_map
    /\ todo_map[call.target[1]].status = "Completed"
    /\ todo_map[call.target[1]].in_progress_at = <<>>
    /\ todo_map[call.target[1]].deleted_at = <<>>
    /\ todo_map[call.target[1]].completed_at # <<>>
    /\ todo_map[call.target[1]].completed_at[1] < now

\* C12: every invocation loads the store before its subcommand runs and
\* saves it as its last step: an invocation leaves its start only by the
\* load, and once loaded ends only by the save of its collection.
C12_LoadFirstSaveLast ==
    [][/\ (pc = "done" /\ pc' # "done") =>
            /\ pc' = "loaded"
            /\ <<todo_map'>> = LoadResult(file)
       /\ (pc # "done" /\ pc' = "done") =>
            /\ pc = "ran"
            /\ \E recs \in Serializations(todo_map) : file' = WriteList(file, recs)]_vars

\* C13: update, start, complete and delete invoked with --id a position or
\* an identifier are accepted, reach their operation, and the operation acts
\* on the todo the reference resolves to and on no other.
C13_SurfaceTakesReferences ==
    (call.op \in RefOps /\ call.ref.kind \in {"int", "uuid"})
    => /\ exit \notin {"usage", "panic"}
       /\ pc = "ran"
       /\ call.target = (IF call.ref.kind = "int" /\ call.ref.val < Len(call.todos)
                         THEN <<call.todos[call.ref.val + 1]>>
                         ELSE IF call.ref.kind = "uuid" THEN <<call.ref.val>> ELSE <<>>)
       /\ \A x \in DOMAIN call.pre : <<x>> # call.target => todo_map[x] = call.pre[x]

\* C14: every timestamp of a todo that is set is at or after the created_at
\* of the todo.
C14_TimestampsAfterCreation ==
    \A k \in DOMAIN todo_map : \A f \in TimestampFields :
        todo_map[k][f] # <<>> => todo_map[k][f][1] >= todo_map[k].created_at

\* C15: add puts into the collection one todo under an identifier that was
\* not in it, created at the time of the call, InProgress with
\* in_progress_at set when the immediate start was asked for, Pending with
\* no in_progress_at otherwise, and neither completed_at nor deleted_at
\* set; every other todo stays as it was.
C15_AddCreates ==
    (pc = "ran" /\ call.op = "add")
    => LET k == call.target[1]
           d == todo_map[k]
       IN /\ k \notin DOMAIN call.pre
          /\ DOMAIN todo_map = DOMAIN call.pre \cup {k}
          /\ \A x \in DOMAIN call.pre : todo_map[x] = call.pre[x]
          /\ d.created_at \in call.at..now
          /\ d.completed_at = <<>>
          /\ d.deleted_at = <<>>
          /\ IF call.args.in_progress = <<TRUE>>
             THEN d.status = "InProgress" /\ d.in_progress_at # <<>>
             ELSE d.status = "Pending" /\ d.in_progress_at = <<>>

\* a second todo, added with the immediate start to a store that holds one
C15_Witness ==
    /\ pc = "ran"
    /\ call.op = "add"
    /\ call.args.in_progress = <<TRUE>>
    /\ DOMAIN call.pre # {}
    /\ todo_map[call.target[1]].status = "InProgress"

\* C16: every todo of the collection has a title that is not the empty text.
C16_TitleNotEmpty ==
    \A k \in DOMAIN todo_map : todo_map[k].title # <<>>

\* the identifiers of the list a file holds
FileIds(f) == {f.recs[i].id : i \in 1..Len(f.recs)}

\* C17: of two invocations at once the last to save wins: when both have
\* saved, the list last written to the store file is the collection of one
\* of them and has nothing of what only the other had, so that a todo one
\* of them added can be absent from the file.
C17_LastWriterWins ==
    (pc = "done" /\ exit = "ok" /\ peer.pc = "done" /\ peer.exit = "ok")
    => \/ /\ FileIds(file) = DOMAIN todo_map
          /\ \A i \in 1..Len(file.recs) :
                file.recs[i].data.title = todo_map[file.recs[i].id].title
       \/ /\ FileIds(file) = DOMAIN peer.todo_map
          /\ \A i \in 1..Len(file.recs) :
                file.recs[i].data.title = peer.todo_map[file.recs[i].id].title

\* two invocations, each added a todo to the empty store and saved; the file
\* is a well-formed list that lacks one of the two
C17_Witness ==
    /\ runs = 1
    /\ nextId = 3
    /\ pc = "done" /\ exit = "ok"
    /\ peer.pc = "done" /\ peer.exit = "ok"
    /\ Cardinality(DOMAIN todo_map) = 1
    /\ Cardinality(DOMAIN peer.todo_map) = 1
    /\ file.len = ListBytes(file.recs)
    /\ \E k \in DOMAIN todo_map \cup DOMAIN peer.todo_map : k \notin FileIds(file)

\* C18: an invocation that finds the store file malformed ends with the
\* fatal error of the load, before any operation, and leaves the store file
\* and every archive as they were.
C18_MalformedIsFatal ==
    [][(pc = "done" /\ runs' = runs + 1 /\ peer' = peer
            /\ file.len > 0 /\ file.len # ListBytes(file.recs))
        => /\ pc' = "done"
           /\ exit' = "fatal"
           /\ call'.op = "none"
           /\ out' = {}
           /\ file' = file
           /\ archive' = archive]_vars

\* the store file left longer than its list by the save after a sync
C18_Witness ==
    /\ pc = "done"
    /\ exit = "fatal"
    /\ call.op = "none"
    /\ file.len > ListBytes(file.recs)
    /\ \E d \in Days : archive[d].len > 0

\* C19: a sync with todos to archive returns success, with the finished
\* todos out of the collection and appended to the archive of the day,
\* whatever the outcome of the version-control steps; their outcome shows
\* only in the lines printed on success.
C19_GitNeverAborts ==
    [][(pc = "loaded" /\ call'.op = "sync" /\ ~NothingArchivable(todo_map)
            /\ LoadResult(archive[now \div (TicksPerSec * SecsPerDay)]) # <<>>)
        => LET keys == {k \in DOMAIN todo_map :
                           todo_map[k].completed_at # <<>> \/ todo_map[k].deleted_at # <<>>}
               day == now \div (TicksPerSec * SecsPerDay)
           IN /\ pc' = "ran"
              /\ exit' = exit
              /\ out' \subseteq {"Git add and commit executed successfully.",
                                  "Git push executed successfully."}
              /\ DOMAIN todo_map' = DOMAIN todo_map \ keys
              /\ \A k \in DOMAIN todo_map' : todo_map'[k] = todo_map[k]
              /\ Len(archive'[day].recs) = Len(archive[day].recs) + Cardinality(keys)
              /\ keys \subseteq FileIds(archive'[day])]_vars

\* both version-control steps failed, and the sync archived and returned
C19_Witness ==
    /\ pc = "ran"
    /\ call.op = "sync"
    /\ out = {}
    /\ exit = "none"
    /\ DOMAIN call.pre \ DOMAIN todo_map # {}
    /\ DOMAIN todo_map # {}
    /\ DOMAIN call.pre \ DOMAIN todo_map \subseteq FileIds(archive[call.at \div (TicksPerSec * SecsPerDay)])

\* C20: a sync with todos to archive writes the archive of the day it read
\* and no other, as a well-formed list: the entries the archive held, as
\* they were and in their order, then the todos archived now; it does not
\* write the store file, which the save of the invocation writes after it.
C20_ArchiveAppended ==
    [][/\ (SyncStep /\ ~NothingArchivable(todo_map)) =>
            LET keys == {k \in DOMAIN todo_map :
                            todo_map[k].completed_at # <<>> \/ todo_map[k].deleted_at # <<>>}
                day == now \div (TicksPerSec * SecsPerDay)
                old == archive[day].recs
                new == archive'[day].recs
            IN /\ Len(new) = Len(old) + Cardinality(keys)
               /\ SubSeq(new, 1, Len(old)) = old
               /\ {new[i].id : i \in (Len(old) + 1)..Len(new)} = keys
               /\ archive'[day].len = ListBytes(new)
               /\ \A d \in Days \ {day} : archive'[d] = archive[d]
               /\ file' = file
       /\ (pc = "ran" /\ call.op = "sync" /\ pc' = "done") =>
            /\ archive' = archive
            /\ FileIds(file') = DOMAIN todo_map]_vars

\* a sync appended to an archive that held another entry, the store not
\* yet saved
C20_Witness ==
    /\ pc = "ran"
    /\ call.op = "sync"
    /\ \E d \in Days :
          /\ Len(archive[d].recs) = 2
          /\ archive[d].recs[1] # archive[d].recs[2]
          /\ archive[d].recs[2].id \in DOMAIN call.pre \ DOMAIN todo_map
    /\ FileIds(file) = DOMAIN call.pre

\* C21: the status of a todo has its timestamp: an InProgress todo has
\* in_progress_at set, a Completed one completed_at, a Deleted one deleted_at.
C21_StatusHasTimestamp ==
    \A k \in DOMAIN todo_map :
        /\ todo_map[k].status = "InProgress" => todo_map[k].in_progress_at # <<>>
        /\ todo_map[k].status = "Completed" => todo_map[k].completed_at # <<>>
        /\ todo_map[k].status = "Deleted" => todo_map[k].deleted_at # <<>>

\* the identifiers a load of the file f yields
StoreIds(f) == IF LoadResult(f) = <<>> THEN {} ELSE DOMAIN LoadResult(f)[1]

\* the identifiers the archives hold
ArchiveIds(a) == UNION {StoreIds(a[d]) : d \in Days}

\* C22: a todo the store file holds is, after any step, in the store file
\* or in an archive; one that leaves the store file was in an archive before
\* it left, and the archives lose nothing.
C22_NoLoss ==
    [][/\ \A k \in StoreIds(file) \ StoreIds(file') : k \in ArchiveIds(archive)
       /\ ArchiveIds(archive) \subseteq ArchiveIds(archive')]_vars

\* C23: a position resolves to the todo that any listing of the same
\* collection shows at that position: whatever order an invocation of list
\* printed, an invocation that finds the collection unchanged resolves the
\* position to the todo printed there.
C23_PositionsDeterministic ==
    (pc = "ran" /\ call.op \in RefOps /\ call.ref.kind = "int"
        /\ call.ref.val < Cardinality(DOMAIN call.pre))
    => \A shown \in OrderedTodos(call.pre) : call.target = <<shown[call.ref.val + 1]>>

\* C24: update, start, complete and delete keep the identifiers of the
\* collection, change no todo but the one the reference resolves to, and
\* keep the created_at of that one; add inserts one todo and changes no
\* other; sync removes todos and changes none of those it leaves; no other
\* operation inserts or removes.
C24_Frame ==
    [][OpStep =>
        /\ call'.op \in RefOps =>
              /\ DOMAIN todo_map' = DOMAIN todo_map
              /\ \A k \in DOMAIN todo_map :
                    /\ <<k>> # call'.target => todo_map'[k] = todo_map[k]
                    /\ todo_map'[k].created_at = todo_map[k].created_at
        /\ call'.op = "add" =>
              /\ DOMAIN todo_map \subseteq DOMAIN todo_map'
              /\ Cardinality(DOMAIN todo_map') = Cardinality(DOMAIN todo_map) + 1
              /\ \A k \in DOMAIN todo_map : todo_map'[k] = todo_map[k]
        /\ call'.op = "sync" =>
              /\ DOMAIN todo_map' \subseteq DOMAIN todo_map
              /\ \A k \in DOMAIN todo_map' : todo_map'[k] = todo_map[k]
        /\ call'.op \in RefOps \cup {"add", "sync"}]_vars

\* an operation changed the todo it was given, in a collection of two
C24_Witness ==
    /\ pc = "ran"
    /\ call.op \in RefOps
    /\ Cardinality(DOMAIN call.pre) = 2
    /\ call.target # <<>>
    /\ call.target[1] \in DOMAIN call.pre
    /\ todo_map[call.target[1]] # call.pre[call.target[1]]
    /\ \A k \in DOMAIN call.pre \ {call.target[1]} : todo_map[k] = call.pre[k]

====
